---- MODULE Spec2Model ----
(***************************************************************************)
(* Model of the neovide bridge (src/src/bridge/mod.rs) and of its redraw   *)
(* event decoder (src/src/bridge/events.rs).                               *)
(*                                                                         *)
(* Spec        the process supervisor, the command channel, the dispatch   *)
(*             loop and the per-command tasks of mod.rs.                   *)
(* SpecDecode  the pure decoder of events.rs applied to bounded wire       *)
(*             values.                                                     *)
(***************************************************************************)
EXTENDS Integers, Sequences, FiniteSets, TLC

\* ------------------------------------------------------------------ bounds
\* Total number of queue_command calls made by all producers together.
MaxCmds == 4
\* Number of producer threads sharing the Bridge.
NumProducers == 2
\* Number of batches under one event name in one redraw element.
MaxBatches == 2
\* Elements of a composed notification, and batches in all its elements.
MaxElements == 2
MaxTotalBatches == 3

\* ------------------------------------------------------- rmpv::Value model
\* One record shape per wire type; the tag is field t.
\* An Integer holds hi * 2^63 + i: hi = 1 stands for the u64 values above
\* i64::MAX (rmpv keeps them as PosInt), hi = 0 and i < 0 for NegInt.
Nil == [t |-> "Nil"]
Boolean(b) == [t |-> "Boolean", b |-> b]
Integer(n) == [t |-> "Integer", i |-> n, hi |-> 0]
BigInteger(n) == [t |-> "Integer", i |-> n, hi |-> 1]
String(s) == [t |-> "String", s |-> s, utf8 |-> TRUE]
\* A String whose bytes are not valid UTF-8 (Utf8String::as_str is None).
RawString(s) == [t |-> "String", s |-> s, utf8 |-> FALSE]
Array(a) == [t |-> "Array", a |-> a]
Map(m) == [t |-> "Map", m |-> m]
F64 == [t |-> "F64"]

None == [some |-> FALSE]
Some(v) == [some |-> TRUE, v |-> v]

\* rmpv::Integer::as_i64 / as_u64
as_i64(int) == IF int.hi = 1 THEN None ELSE Some(int.i)
as_u64(int) == IF int.hi = 0 /\ int.i < 0 THEN None ELSE Some(int)

Ok(v) == [ok |-> TRUE, val |-> v]
Err(e) == [ok |-> FALSE, err |-> e]

\* ------------------------------------------------------------- bridge state
VARIABLES
    sup_pc,      \* position of start_process
    io_pc,       \* position of the task awaiting io_handler
    ioOutcome,   \* how io_handler resolved ("none" while it has not)
    eprinted,    \* whether the IO task wrote to stderr
    exited,      \* std::process::exit was called
    exitStatus,  \* its status (-1 while running)
    calls,       \* RPC calls made on nvim, in order: [name, ok, resp]
    receiver,    \* "alive" | "dropped": the UnboundedReceiver<UiCommand>
    senderAlive, \* the Bridge (its UnboundedSender) still exists
    queue,       \* commands in the channel
    sent,        \* every command the channel accepted, in order
    nextId,      \* number of queue_command calls so far, plus 1
    prod,        \* per producer: "running" | "panicked"
    loop_pc,     \* position of the dispatch loop task
    results,     \* drain's local Vec
    pending,     \* the rest of the iterator of the for loop
    batchLog,    \* every Vec drain returned, in order
    submitted,   \* commands handed to tokio::spawn, in order
    running,     \* ids of command tasks spawned and not finished
    completed,   \* ids of command tasks in order of completion
    \* decoder harness
    d_name,      \* event_name given to parse_neovim_event
    d_args,      \* arguments given to parse_neovim_event
    d_result,    \* its result
    d_each,      \* the results of the parse_redraw_event calls it made
    d_pc         \* "idle" | "build" | "compose" | "decoded"

bridgeVars == <<sup_pc, io_pc, ioOutcome, eprinted, exited, exitStatus, calls,
                receiver, senderAlive, queue, sent, nextId, prod, loop_pc,
                results, pending, batchLog, submitted, running, completed>>
decodeVars == <<d_name, d_args, d_result, d_each, d_pc>>
vars == <<bridgeVars, decodeVars>>

Producers == 1..NumProducers

\* ------------------------------------------------------------ collaborators
\* UiCommand::is_resize (ui_commands.rs)
is_resize(command) == command.kind = "Resize"

\* ResultPanicExplanation::unwrap_or_explained_panic (error_handling.rs):
\* the Ok value is unwrapped, an Err panics the calling task or thread.
unwrap_or_explained_panic(result) == IF result.ok THEN "value" ELSE "panic"

\* UiCommand values a producer can queue.
UiCommand(kind, id) == [kind |-> kind, id |-> id]
Kinds == {"Resize", "Other"}

\* ------------------------------------------------------------------- Init
BridgeInit ==
    /\ sup_pc = "spawn"
    /\ io_pc = "unspawned"
    /\ ioOutcome = "none"
    /\ eprinted = FALSE
    /\ exited = FALSE
    /\ exitStatus = -1
    /\ calls = <<>>
    /\ receiver = "alive"
    /\ senderAlive = TRUE
    /\ queue = <<>>
    /\ sent = <<>>
    /\ nextId = 1
    /\ prod = [p \in Producers |-> "running"]
    /\ loop_pc = "unspawned"
    /\ results = <<>>
    /\ pending = <<>>
    /\ batchLog = <<>>
    /\ submitted = <<>>
    /\ running = {}
    /\ completed = <<>>

DecodeIdle ==
    /\ d_name = ""
    /\ d_args = <<>>
    /\ d_result = Ok(<<>>)
    /\ d_each = <<>>
    /\ d_pc = "idle"

Init == BridgeInit /\ DecodeIdle

\* --------------------------------------------------------- Process Supervisor
\* The task spawned at mod.rs:61: spawned and awaiting io_handler.
SpawnIoTask_AtSteadyState(at) == IF at = "steady" THEN "awaiting" ELSE io_pc
SpawnIoTask(at) == IF at = "child" THEN "awaiting" ELSE io_pc

\* new_child_cmd(...).await.unwrap_or_explained_panic(...), then the spawn
\* of the IO task (no suspension point in between).
SpawnChild(ok) ==
    /\ ~exited /\ sup_pc = "spawn"
    /\ IF unwrap_or_explained_panic(IF ok THEN Ok(Nil) ELSE Err("spawn")) = "value"
       THEN /\ sup_pc' = "version_gate"
            /\ io_pc' = SpawnIoTask("child")
            /\ UNCHANGED receiver
       ELSE /\ sup_pc' = "panicked"
            /\ receiver' = "dropped"
            /\ UNCHANGED io_pc
    /\ UNCHANGED <<ioOutcome, eprinted, exited, exitStatus, calls, senderAlive,
                   queue, sent, nextId, prod, loop_pc, results, pending,
                   batchLog, submitted, running, completed, decodeVars>>

\* Whether the IO task reaches std::process::exit(0) after the match on
\* how io_handler resolved: the call follows the match unconditionally.
IoTaskExits_UnlessChannelClosed(outcome) == outcome # "err_channel_closed"
IoTaskExits(outcome) == TRUE

IoOutcomes == {"ok", "err_channel_closed", "err_other", "join_error"}

\* match io_handler.await { ... }; std::process::exit(0);
IoTask(outcome) ==
    /\ ~exited /\ io_pc = "awaiting"
    /\ ioOutcome' = outcome
    /\ eprinted' = (outcome \in {"join_error", "err_other"})
    /\ io_pc' = "done"
    /\ exited' = IoTaskExits(outcome)
    /\ exitStatus' = IF exited' THEN 0 ELSE exitStatus
    /\ UNCHANGED <<sup_pc, calls, receiver, senderAlive, queue, sent, nextId,
                   prod, loop_pc, results, pending, batchLog, submitted,
                   running, completed, decodeVars>>

\* Answers nvim.eval can give: an error or a value.
EvalResponses ==
    << Err("rpc"), Ok(Integer(1)), Ok(Integer(0)), Ok(Integer(2)),
       Ok(Integer(-1)), Ok(BigInteger(1)), Ok(Boolean(TRUE)), Ok(String("1")),
       Ok(Nil) >>

\* if let Ok(Value::Integer(v)) = eval(..) { v.as_i64() == Some(1) } else exit
VersionSupported_AnyInteger(response) ==
    response.ok /\ response.val.t = "Integer"
VersionSupported(response) ==
    /\ response.ok
    /\ response.val.t = "Integer"
    /\ LET v == as_i64(response.val) IN v.some /\ v.v = 1

VersionGate(response) ==
    /\ ~exited /\ sup_pc = "version_gate"
    /\ calls' = Append(calls, [name |-> "eval", ok |-> response.ok,
                              resp |-> IF response.ok THEN response.val ELSE Nil])
    /\ IF VersionSupported(response)
       THEN /\ sup_pc' = "set_var"
            /\ UNCHANGED <<exited, exitStatus>>
       ELSE /\ exited' = TRUE
            /\ exitStatus' = 0
            /\ UNCHANGED sup_pc
    /\ UNCHANGED <<io_pc, ioOutcome, eprinted, receiver, senderAlive, queue,
                   sent, nextId, prod, loop_pc, results, pending, batchLog,
                   submitted, running, completed, decodeVars>>

\* nvim.set_var("neovide", true).await.unwrap_or_explained_panic(..)
SetVar(ok) ==
    /\ ~exited /\ sup_pc = "set_var"
    /\ calls' = Append(calls, [name |-> "set_var", ok |-> ok, resp |-> Nil])
    /\ IF unwrap_or_explained_panic(IF ok THEN Ok(Nil) ELSE Err("rpc")) = "value"
       THEN /\ sup_pc' = "ui_attach"
            /\ UNCHANGED receiver
       ELSE /\ sup_pc' = "panicked"
            /\ receiver' = "dropped"
    /\ UNCHANGED <<io_pc, ioOutcome, eprinted, exited, exitStatus, senderAlive,
                   queue, sent, nextId, prod, loop_pc, results, pending,
                   batchLog, submitted, running, completed, decodeVars>>

\* Where the dispatch loop task stands after the ui_attach call returned.
SpawnDispatchLoop_Unconditional(attached) == "recv"
SpawnDispatchLoop(attached) == IF attached THEN "recv" ELSE loop_pc

\* nvim.ui_attach(..).await.unwrap_or_explained_panic(..); Arc::new;
\* tokio::spawn of the dispatch loop; start_process returns.
UiAttach(ok) ==
    /\ ~exited /\ sup_pc = "ui_attach"
    /\ calls' = Append(calls, [name |-> "ui_attach", ok |-> ok, resp |-> Nil])
    /\ LET r == unwrap_or_explained_panic(IF ok THEN Ok(Nil) ELSE Err("rpc")) IN
       /\ loop_pc' = SpawnDispatchLoop(r = "value")
       /\ sup_pc' = IF r = "value" THEN "returned" ELSE "panicked"
       /\ receiver' = IF loop_pc' = "recv" THEN receiver ELSE "dropped"
       /\ io_pc' = IF r = "value" THEN SpawnIoTask("steady") ELSE io_pc
    /\ UNCHANGED <<ioOutcome, eprinted, exited, exitStatus, senderAlive, queue,
                   sent, nextId, prod, results, pending, batchLog, submitted,
                   running, completed, decodeVars>>

\* ------------------------------------------------------------ Command Channel
\* UnboundedSender::send as used by queue_command: the channel takes the
\* command whatever its length, and refuses it once the receiver is gone.
send_WhenLoopRuns(command) ==
    IF receiver = "alive" /\ loop_pc # "unspawned" THEN Ok(Append(queue, command))
    ELSE Err("SendError")
send(command) ==
    IF receiver = "alive" THEN Ok(Append(queue, command)) ELSE Err("SendError")

\* Bridge::queue_command, called by producer p.
queue_command(p, kind) ==
    /\ ~exited /\ senderAlive /\ prod[p] = "running"
    /\ nextId <= MaxCmds
    /\ LET command == UiCommand(kind, nextId)
           r == send(command) IN
       IF unwrap_or_explained_panic(r) = "value"
       THEN /\ queue' = r.val
            /\ sent' = Append(sent, command)
            /\ UNCHANGED prod
       ELSE /\ prod' = [prod EXCEPT ![p] = "panicked"]
            /\ UNCHANGED <<queue, sent>>
    /\ nextId' = nextId + 1
    /\ UNCHANGED <<sup_pc, io_pc, ioOutcome, eprinted, exited, exitStatus,
                   calls, receiver, senderAlive, loop_pc, results, pending,
                   batchLog, submitted, running, completed, decodeVars>>

\* The Bridge, and with it the only sender, goes away: the channel closes.
DropSender ==
    /\ ~exited /\ senderAlive
    /\ senderAlive' = FALSE
    /\ UNCHANGED <<sup_pc, io_pc, ioOutcome, eprinted, exited, exitStatus,
                   calls, receiver, queue, sent, nextId, prod, loop_pc, results,
                   pending, batchLog, submitted, running, completed, decodeVars>>

\* -------------------------------------------------------------- Dispatch Loop
\* drain: receiver.recv().await gave Some(ui_command); results = vec![..]
drain_recv_Some ==
    /\ ~exited /\ loop_pc = "recv" /\ queue # <<>>
    /\ results' = <<Head(queue)>>
    /\ queue' = Tail(queue)
    /\ loop_pc' = "try_recv"
    /\ UNCHANGED <<sup_pc, io_pc, ioOutcome, eprinted, exited, exitStatus,
                   calls, receiver, senderAlive, sent, nextId, prod, pending,
                   batchLog, submitted, running, completed, decodeVars>>

\* When recv() resolves to None: every sender dropped and nothing queued.
recv_None_OnClose == ~senderAlive
recv_None == ~senderAlive /\ queue = <<>>

\* drain returns None and the loop breaks; the task ends and drops receiver.
drain_recv_None ==
    /\ ~exited /\ loop_pc = "recv" /\ recv_None
    /\ loop_pc' = "done"
    /\ receiver' = "dropped"
    /\ UNCHANGED <<sup_pc, io_pc, ioOutcome, eprinted, exited, exitStatus,
                   calls, senderAlive, queue, sent, nextId, prod, results,
                   pending, batchLog, submitted, running, completed, decodeVars>>

\* while let Ok(ui_command) = receiver.try_recv() { results.push(..) }
drain_try_recv_Ok ==
    /\ ~exited /\ loop_pc = "try_recv" /\ queue # <<>>
    /\ results' = Append(results, Head(queue))
    /\ queue' = Tail(queue)
    /\ UNCHANGED <<sup_pc, io_pc, ioOutcome, eprinted, exited, exitStatus,
                   calls, receiver, senderAlive, sent, nextId, prod, loop_pc,
                   pending, batchLog, submitted, running, completed, decodeVars>>

\* resize_list.into_iter().last().into_iter().chain(other_commands)
last(list) == IF list = <<>> THEN <<>> ELSE <<list[Len(list)]>>
coalesce_last_of_each(commands) ==
    LET resize_list == SelectSeq(commands, is_resize)
        other_commands == SelectSeq(commands, LAMBDA c : ~is_resize(c))
    IN  last(resize_list) \o last(other_commands)
coalesce_first(commands) ==
    LET resize_list == SelectSeq(commands, is_resize)
        other_commands == SelectSeq(commands, LAMBDA c : ~is_resize(c))
    IN  (IF resize_list = <<>> THEN <<>> ELSE <<resize_list[1]>>) \o other_commands
coalesce_in_place(commands) ==
    LET resize_list == SelectSeq(commands, is_resize)
    IN  SelectSeq(commands, LAMBDA c : ~is_resize(c) \/ <<c>> = last(resize_list))
coalesce(commands) ==
    LET resize_list == SelectSeq(commands, is_resize)
        other_commands == SelectSeq(commands, LAMBDA c : ~is_resize(c))
    IN  last(resize_list) \o other_commands

\* try_recv() gave Err: drain returns Some(results); the batch is
\* partitioned and the for loop starts over the chained iterator.
drain_try_recv_Err ==
    /\ ~exited /\ loop_pc = "try_recv" /\ queue = <<>>
    /\ batchLog' = Append(batchLog, results)
    /\ pending' = coalesce(results)
    /\ results' = <<>>
    /\ loop_pc' = "spawn"
    /\ UNCHANGED <<sup_pc, io_pc, ioOutcome, eprinted, exited, exitStatus,
                   calls, receiver, senderAlive, queue, sent, nextId, prod,
                   submitted, running, completed, decodeVars>>

\* Whether the for loop may hand the next command to tokio::spawn: it
\* never awaits the tasks it spawned.
may_spawn_AfterJoin == running = {}
may_spawn == TRUE

\* One turn of the for loop: tokio::spawn(async move { command.execute }).
spawn_command ==
    /\ ~exited /\ loop_pc = "spawn" /\ pending # <<>>
    /\ may_spawn
    /\ submitted' = Append(submitted, Head(pending))
    /\ running' = running \cup {Head(pending).id}
    /\ pending' = Tail(pending)
    /\ loop_pc' = IF pending' = <<>> THEN "recv" ELSE "spawn"
    /\ UNCHANGED <<sup_pc, io_pc, ioOutcome, eprinted, exited, exitStatus,
                   calls, receiver, senderAlive, queue, sent, nextId, prod,
                   results, batchLog, completed, decodeVars>>

\* Which spawned tasks can finish next: each is its own task.
can_complete_InOrder(id) == id \in running /\ \A other \in running : id <= other
can_complete(id) == id \in running

\* command.execute(&nvim).await returns in the task of command id.
execute(id) ==
    /\ ~exited /\ can_complete(id)
    /\ running' = running \ {id}
    /\ completed' = Append(completed, id)
    /\ UNCHANGED <<sup_pc, io_pc, ioOutcome, eprinted, exited, exitStatus,
                   calls, receiver, senderAlive, queue, sent, nextId, prod,
                   loop_pc, results, pending, batchLog, submitted, decodeVars>>

\* ------------------------------------------------------------------- Next
Next ==
    \/ \E ok \in BOOLEAN : SpawnChild(ok)
    \/ \E outcome \in IoOutcomes : IoTask(outcome)
    \/ \E k \in 1..Len(EvalResponses) : VersionGate(EvalResponses[k])
    \/ \E ok \in BOOLEAN : SetVar(ok)
    \/ \E ok \in BOOLEAN : UiAttach(ok)
    \/ \E p \in Producers, kind \in Kinds : queue_command(p, kind)
    \/ DropSender
    \/ drain_recv_Some
    \/ drain_recv_None
    \/ drain_try_recv_Ok
    \/ drain_try_recv_Err
    \/ spawn_command
    \/ \E id \in running : execute(id)

Spec == Init /\ [][Next]_vars

\* Vec::append over a sequence of Vecs.
RECURSIVE Flatten(_)
Flatten(batches) ==
    IF batches = <<>> THEN <<>> ELSE Head(batches) \o Flatten(Tail(batches))

\* ================================================================ events.rs
\* EventParseError: the variants that carry the offending value, and
\* InvalidEventFormat, which carries nothing.
Invalid(kind, value) == Err([kind |-> kind, value |-> value])
InvalidEventFormat == Err([kind |-> "InvalidEventFormat"])
\* A panic unwinding through the decoder (Option::unwrap on None).
Panic == Err([kind |-> "panic"])

\* The ? operator: the value of an Ok goes on, an Err is returned.
Then(result, F(_)) == IF result.ok THEN F(result.val) ELSE result
\* The ? operator over expressions evaluated in order: the first Err wins.
AllOk(rs) == \A i \in DOMAIN rs : rs[i].ok
FirstErr(rs) == rs[CHOOSE i \in DOMAIN rs : ~rs[i].ok /\ \A j \in 1..(i - 1) : rs[j].ok]
\* Ok(F(values)) for a struct whose fields are the results rs, in the
\* order they are evaluated in.
Build(rs, F(_)) ==
    IF AllOk(rs) THEN Ok(F([i \in DOMAIN rs |-> rs[i].val])) ELSE FirstErr(rs)
\* iter().map(F).collect::<Result<Vec<_>>>()
Collect(F(_), values) == Build([i \in DOMAIN values |-> F(values[i])], LAMBDA v : v)

\* A u64 taken out of an Integer.
U64(int) == [i |-> int.i, hi |-> int.hi]

parse_array(array_value) ==
    IF array_value.t = "Array" THEN Ok(array_value.a)
    ELSE Invalid("InvalidArray", array_value)

parse_map(map_value) ==
    IF map_value.t = "Map" THEN Ok(map_value.m)
    ELSE Invalid("InvalidMap", map_value)

parse_string(string_value) ==
    IF string_value.t = "String" /\ string_value.utf8 THEN Ok(string_value.s)
    ELSE Invalid("InvalidString", string_value)

parse_u64(u64_value) ==
    IF u64_value.t = "Integer" /\ as_u64(u64_value).some THEN Ok(U64(u64_value))
    ELSE Invalid("InvalidU64", u64_value)

parse_i64(i64_value) ==
    IF i64_value.t = "Integer" /\ as_i64(i64_value).some THEN Ok(i64_value.i)
    ELSE Invalid("InvalidI64", i64_value)

parse_bool(bool_value) ==
    IF bool_value.t = "Boolean" THEN Ok(bool_value.b)
    ELSE Invalid("InvalidBool", bool_value)

\* packed_color as u32, then the three bytes; components are kept as the
\* numerators of r / 255.0, g / 255.0, b / 255.0, and a = 1.0 as 255 / 255.
unpack_color(packed_color) ==
    [r |-> (packed_color.i \div 65536) % 256,
     g |-> (packed_color.i \div 256) % 256,
     b |-> packed_color.i % 256,
     a |-> 255]

MessageKind_parse(kind) ==
    CASE kind = "confirm" -> "Confirm"
      [] kind = "confirm_sub" -> "ConfirmSubstitute"
      [] kind = "emsg" -> "Error"
      [] kind = "echo" -> "Echo"
      [] kind = "echomsg" -> "EchoMessage"
      [] kind = "echoerr" -> "EchoError"
      [] kind = "lua_error" -> "LuaError"
      [] kind = "rpc_error" -> "RpcError"
      [] kind = "return_prompt" -> "ReturnPrompt"
      [] kind = "quickfix" -> "QuickFix"
      [] kind = "search_count" -> "SearchCount"
      [] kind = "wmsg" -> "Warning"
      [] OTHER -> "Unknown"

parse_set_title(set_title_arguments) ==
    IF Len(set_title_arguments) = 1
    THEN Build(<<parse_string(set_title_arguments[1])>>,
               LAMBDA v : [type |-> "SetTitle", title |-> v[1]])
    ELSE InvalidEventFormat

\* CursorMode::default() (editor module)
CursorMode_default ==
    [shape |-> None, style_id |-> None, cell_percentage |-> None,
     blinkwait |-> None, blinkon |-> None, blinkoff |-> None]

\* CursorShape::from_type_name (editor module): an Option<CursorShape> that
\* depends on the name alone; kept as the application to the name.
CursorShape_from_type_name(name) == [from_type_name |-> name]

\* The field of CursorMode a key of the mode_info map sets.
cursor_mode_field(name) == IF name = "attr_id" THEN "style_id" ELSE name

\* One turn of the for loop over a mode_info map: the mode_info after the
\* pair (name, value). cell_percentage keeps the numerator of value / 100.0.
cursor_mode_attribute(mode_info, name, value) ==
    IF name = "cursor_shape"
    THEN Build(<<parse_string(value)>>,
               LAMBDA v : [mode_info EXCEPT !.shape = CursorShape_from_type_name(v[1])])
    ELSE IF name \in {"cell_percentage", "blinkwait", "blinkon", "blinkoff", "attr_id"}
    THEN Build(<<parse_u64(value)>>,
               LAMBDA v : [mode_info EXCEPT ![cursor_mode_field(name)] = Some(v[1])])
    ELSE Ok(mode_info)

RECURSIVE parse_cursor_mode(_, _)
parse_cursor_mode(info_map, mode_info) ==
    IF info_map = <<>> THEN Ok(mode_info)
    ELSE Then(parse_string(Head(info_map)[1]),
              LAMBDA name :
                  Then(cursor_mode_attribute(mode_info, name, Head(info_map)[2]),
                       LAMBDA next : parse_cursor_mode(Tail(info_map), next)))

parse_mode_info(mode_info_value) ==
    Then(parse_map(mode_info_value),
         LAMBDA info_map : parse_cursor_mode(info_map, CursorMode_default))

parse_mode_info_set(mode_info_set_arguments) ==
    IF Len(mode_info_set_arguments) = 2
    THEN Then(parse_array(mode_info_set_arguments[2]),
              LAMBDA mode_info_values :
                  Build(<<Collect(parse_mode_info, mode_info_values)>>,
                        LAMBDA v : [type |-> "ModeInfoSet", cursor_modes |-> v[1]]))
    ELSE InvalidEventFormat

\* GuiOption::X(parse(value)?)
gui_option(option, parsed) ==
    Build(<<parsed>>, LAMBDA v : [option |-> option, value |-> v[1]])

parse_gui_option(name, value) ==
    CASE name = "arabicshape" -> gui_option("AribicShape", parse_bool(value))
      [] name = "ambiwidth" -> gui_option("AmbiWidth", parse_string(value))
      [] name = "emoji" -> gui_option("Emoji", parse_bool(value))
      [] name = "guifont" -> gui_option("GuiFont", parse_string(value))
      [] name = "guifontset" -> gui_option("GuiFontSet", parse_string(value))
      [] name = "guifontwide" -> gui_option("GuiFontWide", parse_string(value))
      [] name = "linespace" -> gui_option("LineSpace", parse_u64(value))
      [] name = "pumblend" -> gui_option("Pumblend", parse_u64(value))
      [] name = "showtabline" -> gui_option("ShowTabLine", parse_u64(value))
      [] name = "termguicolors" -> gui_option("TermGuiColors", parse_bool(value))
      [] OTHER -> Ok([option |-> "Unknown", name |-> name, value |-> value])

parse_option_set(option_set_arguments) ==
    IF Len(option_set_arguments) = 2
    THEN Then(parse_string(option_set_arguments[1]),
              LAMBDA name :
                  Build(<<parse_gui_option(name, option_set_arguments[2])>>,
                        LAMBDA v : [type |-> "OptionSet", gui_option |-> v[1]]))
    ELSE InvalidEventFormat

parse_mode_change(mode_change_arguments) ==
    IF Len(mode_change_arguments) = 2
    THEN Build(<<parse_u64(mode_change_arguments[2])>>,
               LAMBDA v : [type |-> "ModeChange", mode_index |-> v[1]])
    ELSE InvalidEventFormat

parse_grid_resize(grid_resize_arguments) ==
    IF Len(grid_resize_arguments) = 3
    THEN Build(<<parse_u64(grid_resize_arguments[1]),
                 parse_u64(grid_resize_arguments[2]),
                 parse_u64(grid_resize_arguments[3])>>,
               LAMBDA v : [type |-> "Resize", grid |-> v[1], width |-> v[2],
                           height |-> v[3]])
    ELSE InvalidEventFormat

parse_default_colors(default_colors_arguments) ==
    IF Len(default_colors_arguments) = 5
    THEN Build(<<parse_u64(default_colors_arguments[1]),
                 parse_u64(default_colors_arguments[2]),
                 parse_u64(default_colors_arguments[3])>>,
               LAMBDA v : [type |-> "DefaultColorsSet",
                           colors |-> [foreground |-> Some(unpack_color(v[1])),
                                       background |-> Some(unpack_color(v[2])),
                                       special |-> Some(unpack_color(v[3]))]])
    ELSE InvalidEventFormat

\* Style::new(Colors::new(None, None, None)) (editor module)
Style_new ==
    [colors |-> [foreground |-> None, background |-> None, special |-> None],
     reverse |-> FALSE, italic |-> FALSE, bold |-> FALSE, strikethrough |-> FALSE,
     underline |-> FALSE, undercurl |-> FALSE, blend |-> 0]

\* One turn of the for loop of parse_style: the style after the attribute
\* (name, value). A key that is no String, an unknown name and a known
\* name with a value of another type are printed and skipped; as_str()
\* .unwrap() and as_u64().unwrap() panic on None.
style_attribute(style, name, value) ==
    IF name.t # "String" THEN Ok(style)
    ELSE IF ~name.utf8 THEN Panic
    ELSE IF name.s \in {"foreground", "background", "special"} /\ value.t = "Integer"
    THEN IF as_u64(value).some
         THEN Ok([style EXCEPT !.colors[name.s] = Some(unpack_color(U64(value)))])
         ELSE Panic
    ELSE IF name.s \in {"reverse", "italic", "bold", "strikethrough", "underline",
                        "undercurl"} /\ value.t = "Boolean"
    THEN Ok([style EXCEPT ![name.s] = value.b])
    ELSE IF name.s = "blend" /\ value.t = "Integer"
    THEN IF as_u64(value).some THEN Ok([style EXCEPT !.blend = value.i % 256])
         ELSE Panic
    ELSE Ok(style)

RECURSIVE parse_style_attributes(_, _)
parse_style_attributes(attributes, style) ==
    IF attributes = <<>> THEN Ok(style)
    ELSE Then(style_attribute(style, Head(attributes)[1], Head(attributes)[2]),
              LAMBDA next : parse_style_attributes(Tail(attributes), next))

parse_style(style_map) ==
    IF style_map.t = "Map" THEN parse_style_attributes(style_map.m, Style_new)
    ELSE Invalid("InvalidMap", style_map)

\* parse_style(attributes)? runs before parse_u64(id)?.
parse_hl_attr_define(hl_attr_define_arguments) ==
    IF Len(hl_attr_define_arguments) = 4
    THEN Build(<<parse_style(hl_attr_define_arguments[2]),
                 parse_u64(hl_attr_define_arguments[1])>>,
               LAMBDA v : [type |-> "HighlightAttributesDefine", id |-> v[2],
                           style |-> v[1]])
    ELSE InvalidEventFormat

\* cell_contents.get(n).map(parse_u64).transpose()
parse_optional_u64(cell_contents, n) ==
    IF Len(cell_contents) >= n
    THEN Build(<<parse_u64(cell_contents[n])>>, LAMBDA v : Some(v[1]))
    ELSE Ok(None)

parse_grid_line_cell(grid_line_cell) ==
    Then(parse_array(grid_line_cell),
         LAMBDA cell_contents :
             IF Len(cell_contents) = 0 THEN InvalidEventFormat
             ELSE Build(<<parse_string(cell_contents[1]),
                          parse_optional_u64(cell_contents, 2),
                          parse_optional_u64(cell_contents, 3)>>,
                        LAMBDA v : [text |-> v[1], highlight_id |-> v[2],
                                    repeat |-> v[3]]))

parse_cells(cells) ==
    Then(parse_array(cells), LAMBDA values : Collect(parse_grid_line_cell, values))

parse_grid_line(grid_line_arguments) ==
    IF Len(grid_line_arguments) = 4
    THEN Build(<<parse_u64(grid_line_arguments[1]),
                 parse_u64(grid_line_arguments[2]),
                 parse_u64(grid_line_arguments[3]),
                 parse_cells(grid_line_arguments[4])>>,
               LAMBDA v : [type |-> "GridLine", grid |-> v[1], row |-> v[2],
                           column_start |-> v[3], cells |-> v[4]])
    ELSE InvalidEventFormat

parse_clear(clear_arguments) ==
    IF Len(clear_arguments) = 1
    THEN Build(<<parse_u64(clear_arguments[1])>>,
               LAMBDA v : [type |-> "Clear", grid |-> v[1]])
    ELSE InvalidEventFormat

\* if let [grid_id, column, row] = ...: the second argument is bound to
\* column and the third to row; the fields are evaluated grid, row, column.
parse_cursor_goto(cursor_goto_arguments) ==
    IF Len(cursor_goto_arguments) = 3
    THEN Build(<<parse_u64(cursor_goto_arguments[1]),
                 parse_u64(cursor_goto_arguments[3]),
                 parse_u64(cursor_goto_arguments[2])>>,
               LAMBDA v : [type |-> "CursorGoto", grid |-> v[1], row |-> v[2],
                           column |-> v[3]])
    ELSE InvalidEventFormat

parse_grid_scroll(grid_scroll_arguments) ==
    IF Len(grid_scroll_arguments) = 7
    THEN Build(<<parse_u64(grid_scroll_arguments[1]),
                 parse_u64(grid_scroll_arguments[2]),
                 parse_u64(grid_scroll_arguments[3]),
                 parse_u64(grid_scroll_arguments[4]),
                 parse_u64(grid_scroll_arguments[5]),
                 parse_i64(grid_scroll_arguments[6]),
                 parse_i64(grid_scroll_arguments[7])>>,
               LAMBDA v : [type |-> "Scroll", grid |-> v[1], top |-> v[2],
                           bottom |-> v[3], left |-> v[4], right |-> v[5],
                           rows |-> v[6], columns |-> v[7]])
    ELSE InvalidEventFormat

parse_win_pos(win_pos_arguments) ==
    IF Len(win_pos_arguments) = 6
    THEN Build(<<parse_u64(win_pos_arguments[1]),
                 parse_u64(win_pos_arguments[2]),
                 parse_u64(win_pos_arguments[3]),
                 parse_u64(win_pos_arguments[4]),
                 parse_u64(win_pos_arguments[5]),
                 parse_u64(win_pos_arguments[6])>>,
               LAMBDA v : [type |-> "WindowPosition", grid |-> v[1], window |-> v[2],
                           start_row |-> v[3], start_column |-> v[4],
                           width |-> v[5], height |-> v[6]])
    ELSE InvalidEventFormat

\* match parse_string(value).ok() { Some("NW") => ..., _ => Err(..) }
window_anchor(parsed, value) ==
    IF parsed.ok /\ parsed.val = "NW" THEN Ok("NorthWest")
    ELSE IF parsed.ok /\ parsed.val = "NE" THEN Ok("NorthEast")
    ELSE IF parsed.ok /\ parsed.val = "SW" THEN Ok("SouthWest")
    ELSE IF parsed.ok /\ parsed.val = "SE" THEN Ok("SouthEast")
    ELSE Invalid("InvalidWindowAnchor", value)

parse_window_anchor(value) == window_anchor(parse_string(value), value)

parse_win_float_pos(win_float_pos_arguments) ==
    IF Len(win_float_pos_arguments) = 7
    THEN Build(<<parse_u64(win_float_pos_arguments[1]),
                 parse_u64(win_float_pos_arguments[2]),
                 parse_window_anchor(win_float_pos_arguments[3]),
                 parse_u64(win_float_pos_arguments[4]),
                 parse_u64(win_float_pos_arguments[5]),
                 parse_u64(win_float_pos_arguments[6]),
                 parse_bool(win_float_pos_arguments[7])>>,
               LAMBDA v : [type |-> "WindowFloatPosition", grid |-> v[1],
                           window |-> v[2], anchor |-> v[3], anchor_grid |-> v[4],
                           anchor_row |-> v[5], anchor_column |-> v[6],
                           focusable |-> v[7]])
    ELSE InvalidEventFormat

parse_win_external_pos(win_external_pos_arguments) ==
    IF Len(win_external_pos_arguments) = 2
    THEN Build(<<parse_u64(win_external_pos_arguments[1]),
                 parse_u64(win_external_pos_arguments[2])>>,
               LAMBDA v : [type |-> "WindowExternalPosition", grid |-> v[1],
                           window |-> v[2]])
    ELSE InvalidEventFormat

parse_win_hide(win_hide_arguments) ==
    IF Len(win_hide_arguments) = 1
    THEN Build(<<parse_u64(win_hide_arguments[1])>>,
               LAMBDA v : [type |-> "WindowHide", grid |-> v[1]])
    ELSE InvalidEventFormat

parse_win_close(win_close_arguments) ==
    IF Len(win_close_arguments) = 1
    THEN Build(<<parse_u64(win_close_arguments[1])>>,
               LAMBDA v : [type |-> "WindowClose", grid |-> v[1]])
    ELSE InvalidEventFormat

parse_msg_set_pos(msg_set_pos_arguments) ==
    IF Len(msg_set_pos_arguments) = 4
    THEN Build(<<parse_u64(msg_set_pos_arguments[1]),
                 parse_u64(msg_set_pos_arguments[2]),
                 parse_bool(msg_set_pos_arguments[3]),
                 parse_string(msg_set_pos_arguments[4])>>,
               LAMBDA v : [type |-> "MessageSetPosition", grid |-> v[1], row |-> v[2],
                           scrolled |-> v[3], separator_character |-> v[4]])
    ELSE InvalidEventFormat

\* The closure of parse_styled_content over one tuple.
parse_styled_tuple(tuple) ==
    Then(parse_array(tuple),
         LAMBDA pair :
             IF Len(pair) = 2
             THEN Build(<<parse_u64(pair[1]), parse_string(pair[2])>>,
                        LAMBDA v : <<v[1], v[2]>>)
             ELSE InvalidEventFormat)

parse_styled_content(line) ==
    Then(parse_array(line), LAMBDA tuples : Collect(parse_styled_tuple, tuples))

parse_cmdline_show(cmdline_show_arguments) ==
    IF Len(cmdline_show_arguments) = 6
    THEN Build(<<parse_styled_content(cmdline_show_arguments[1]),
                 parse_u64(cmdline_show_arguments[2]),
                 parse_string(cmdline_show_arguments[3]),
                 parse_string(cmdline_show_arguments[4]),
                 parse_u64(cmdline_show_arguments[5]),
                 parse_u64(cmdline_show_arguments[6])>>,
               LAMBDA v : [type |-> "CommandLineShow", content |-> v[1],
                           position |-> v[2], first_character |-> v[3],
                           prompt |-> v[4], indent |-> v[5], level |-> v[6]])
    ELSE InvalidEventFormat

parse_cmdline_pos(cmdline_pos_arguments) ==
    IF Len(cmdline_pos_arguments) = 2
    THEN Build(<<parse_u64(cmdline_pos_arguments[1]),
                 parse_u64(cmdline_pos_arguments[2])>>,
               LAMBDA v : [type |-> "CommandLinePosition", position |-> v[1],
                           level |-> v[2]])
    ELSE InvalidEventFormat

parse_cmdline_special_char(cmdline_special_char_arguments) ==
    IF Len(cmdline_special_char_arguments) = 3
    THEN Build(<<parse_string(cmdline_special_char_arguments[1]),
                 parse_bool(cmdline_special_char_arguments[2]),
                 parse_u64(cmdline_special_char_arguments[3])>>,
               LAMBDA v : [type |-> "CommandLineSpecialCharacter", character |-> v[1],
                           shift |-> v[2], level |-> v[3]])
    ELSE InvalidEventFormat

parse_styled_lines(lines) ==
    Then(parse_array(lines), LAMBDA values : Collect(parse_styled_content, values))

parse_cmdline_block_show(cmdline_block_show_arguments) ==
    IF Len(cmdline_block_show_arguments) = 1
    THEN Build(<<parse_styled_lines(cmdline_block_show_arguments[1])>>,
               LAMBDA v : [type |-> "CommandLineBlockShow", lines |-> v[1]])
    ELSE InvalidEventFormat

parse_cmdline_block_append(cmdline_block_append_arguments) ==
    IF Len(cmdline_block_append_arguments) = 1
    THEN Build(<<parse_styled_content(cmdline_block_append_arguments[1])>>,
               LAMBDA v : [type |-> "CommandLineBlockAppend", line |-> v[1]])
    ELSE InvalidEventFormat

parse_msg_show(msg_show_arguments) ==
    IF Len(msg_show_arguments) = 3
    THEN Build(<<parse_string(msg_show_arguments[1]),
                 parse_styled_content(msg_show_arguments[2]),
                 parse_bool(msg_show_arguments[3])>>,
               LAMBDA v : [type |-> "MessageShow", kind |-> MessageKind_parse(v[1]),
                           content |-> v[2], replace_last |-> v[3]])
    ELSE InvalidEventFormat

parse_msg_showmode(msg_showmode_arguments) ==
    IF Len(msg_showmode_arguments) = 1
    THEN Build(<<parse_styled_content(msg_showmode_arguments[1])>>,
               LAMBDA v : [type |-> "MessageShowMode", content |-> v[1]])
    ELSE InvalidEventFormat

parse_msg_showcmd(msg_showcmd_arguments) ==
    IF Len(msg_showcmd_arguments) = 1
    THEN Build(<<parse_styled_content(msg_showcmd_arguments[1])>>,
               LAMBDA v : [type |-> "MessageShowCommand", content |-> v[1]])
    ELSE InvalidEventFormat

parse_msg_ruler(msg_ruler_arguments) ==
    IF Len(msg_ruler_arguments) = 1
    THEN Build(<<parse_styled_content(msg_ruler_arguments[1])>>,
               LAMBDA v : [type |-> "MessageRuler", content |-> v[1]])
    ELSE InvalidEventFormat

parse_msg_history_entry(entry) ==
    Then(parse_array(entry),
         LAMBDA pair :
             IF Len(pair) = 2
             THEN Build(<<parse_string(pair[1]), parse_styled_content(pair[2])>>,
                        LAMBDA v : <<MessageKind_parse(v[1]), v[2]>>)
             ELSE InvalidEventFormat)

parse_msg_history_entries(entries) ==
    Then(parse_array(entries), LAMBDA values : Collect(parse_msg_history_entry, values))

parse_msg_history_show(msg_history_show_arguments) ==
    IF Len(msg_history_show_arguments) = 1
    THEN Build(<<parse_msg_history_entries(msg_history_show_arguments[1])>>,
               LAMBDA v : [type |-> "MessageHistoryShow", entries |-> v[1]])
    ELSE InvalidEventFormat

\* The arms of the match that build an event without looking at
\* event_parameters: Some(RedrawEvent::X).
bare_event(type, event_parameters) == Ok([type |-> type])

\* The arms "set_icon" => None and _ => None: no event, no error.
ignored_event_strict(event_name) == InvalidEventFormat
ignored_event(event_name) == Ok(None)

\* The parse function, or the event, of each arm that builds an event.
parse_event(event_name, event_parameters) ==
    CASE event_name = "set_title" -> parse_set_title(event_parameters)
      [] event_name = "mode_info_set" -> parse_mode_info_set(event_parameters)
      [] event_name = "option_set" -> parse_option_set(event_parameters)
      [] event_name = "mode_change" -> parse_mode_change(event_parameters)
      [] event_name = "busy_start" -> bare_event("BusyStart", event_parameters)
      [] event_name = "busy_stop" -> bare_event("BusyStop", event_parameters)
      [] event_name = "flush" -> bare_event("Flush", event_parameters)
      [] event_name = "grid_resize" -> parse_grid_resize(event_parameters)
      [] event_name = "default_colors_set" -> parse_default_colors(event_parameters)
      [] event_name = "hl_attr_define" -> parse_hl_attr_define(event_parameters)
      [] event_name = "grid_line" -> parse_grid_line(event_parameters)
      [] event_name = "grid_clear" -> parse_clear(event_parameters)
      [] event_name = "grid_cursor_goto" -> parse_cursor_goto(event_parameters)
      [] event_name = "grid_scroll" -> parse_grid_scroll(event_parameters)
      [] event_name = "win_pos" -> parse_win_pos(event_parameters)
      [] event_name = "win_float_pos" -> parse_win_float_pos(event_parameters)
      [] event_name = "win_external_pos" -> parse_win_external_pos(event_parameters)
      [] event_name = "win_hide" -> parse_win_hide(event_parameters)
      [] event_name = "win_close" -> parse_win_close(event_parameters)
      [] event_name = "msg_set_pos" -> parse_msg_set_pos(event_parameters)
      [] event_name = "cmdline_show" -> parse_cmdline_show(event_parameters)
      [] event_name = "cmdline_pos" -> parse_cmdline_pos(event_parameters)
      [] event_name = "cmdline_special_char" -> parse_cmdline_special_char(event_parameters)
      [] event_name = "cmdline_hide" -> bare_event("CommandLineHide", event_parameters)
      [] event_name = "cmdline_block_show" -> parse_cmdline_block_show(event_parameters)
      [] event_name = "cmdline_block_append" ->
             parse_cmdline_block_append(event_parameters)
      [] event_name = "cmdline_block_hide" ->
             bare_event("CommandLineBlockHide", event_parameters)
      [] event_name = "msg_show" -> parse_msg_show(event_parameters)
      [] event_name = "msg_clear" -> bare_event("MessageClear", event_parameters)
      [] event_name = "msg_showmode" -> parse_msg_showmode(event_parameters)
      [] event_name = "msg_showcmd" -> parse_msg_showcmd(event_parameters)
      [] event_name = "msg_ruler" -> parse_msg_ruler(event_parameters)
      [] event_name = "msg_history_show" -> parse_msg_history_show(event_parameters)

\* The names of the arms of the match that build an event.
event_names ==
    {"set_title", "mode_info_set", "option_set", "mode_change", "busy_start",
     "busy_stop", "flush", "grid_resize", "default_colors_set", "hl_attr_define",
     "grid_line", "grid_clear", "grid_cursor_goto", "grid_scroll", "win_pos",
     "win_float_pos", "win_external_pos", "win_hide", "win_close", "msg_set_pos",
     "cmdline_show", "cmdline_pos", "cmdline_special_char", "cmdline_hide",
     "cmdline_block_show", "cmdline_block_append", "cmdline_block_hide",
     "msg_show", "msg_clear", "msg_showmode", "msg_showcmd", "msg_ruler",
     "msg_history_show"}

\* match event_name { ... }: the possible_parsed_event of one batch,
\* Some(parse_x(event_parameters)?) or None.
possible_parsed_event(event_name, event_parameters) ==
    IF event_name \in event_names
    THEN Build(<<parse_event(event_name, event_parameters)>>, LAMBDA v : Some(v[1]))
    ELSE ignored_event(event_name)

\* The body of the for loop over events[1..]: parse_array(&event)? comes
\* before the match, whatever the name.
parse_batch(event_name, event) ==
    Then(parse_array(event),
         LAMBDA event_parameters : possible_parsed_event(event_name, event_parameters))

\* parsed_events after all batches: the events of the Some results in order.
RECURSIVE pushed_events_newest_first(_)
pushed_events_newest_first(possible) ==
    IF possible = <<>> THEN <<>>
    ELSE pushed_events_newest_first(Tail(possible))
         \o (IF Head(possible).some THEN <<Head(possible).v>> ELSE <<>>)
RECURSIVE pushed_events(_)
pushed_events(possible) ==
    IF possible = <<>> THEN <<>>
    ELSE (IF Head(possible).some THEN <<Head(possible).v>> ELSE <<>>)
         \o pushed_events(Tail(possible))

parse_batches(event_name, batches) ==
    Build(<<Collect(LAMBDA event : parse_batch(event_name, event), batches)>>,
          LAMBDA v : pushed_events(v[1]))

parse_redraw_event(event_value) ==
    Then(parse_array(event_value),
         LAMBDA event_contents :
             IF Len(event_contents) = 0 THEN InvalidEventFormat
             ELSE Then(parse_string(event_contents[1]),
                       LAMBDA event_name : parse_batches(event_name, Tail(event_contents))))

\* The calls of parse_redraw_event the for loop of parse_neovim_event
\* makes: one per argument, up to and including the first that fails.
calls_to_the_end(rs) == rs
calls_until_error(rs) ==
    IF AllOk(rs) THEN rs
    ELSE SubSeq(rs, 1, CHOOSE i \in DOMAIN rs :
                           ~rs[i].ok /\ \A j \in 1..(i - 1) : rs[j].ok)

redraw_calls(event_name, arguments) ==
    IF event_name = "redraw"
    THEN calls_until_error([i \in DOMAIN arguments |-> parse_redraw_event(arguments[i])])
    ELSE <<>>

\* resulting_events after the loop, or the error of the call that failed.
neovim_event_result(each) ==
    IF AllOk(each) THEN Ok(Flatten([i \in DOMAIN each |-> each[i].val]))
    ELSE each[Len(each)]

parse_neovim_event(event_name, arguments) ==
    neovim_event_result(redraw_calls(event_name, arguments))

\* ------------------------------------------------- inputs of the decoder
StyledLine ==
    Array(<<Array(<<Integer(3), String("ab")>>), Array(<<Integer(4), String("cd")>>)>>)

\* Names that build no event: the one the match names and two it does not.
IgnoredTags == {"set_icon", "win_viewport", ""}
Tags == event_names \cup IgnoredTags

\* One batch per name as nvim sends it.
WellFormed(tag) ==
    CASE tag = "set_title" -> <<String("title")>>
      [] tag = "mode_info_set" ->
             <<Boolean(TRUE),
               Array(<<Map(<< <<String("cursor_shape"), String("block")>>,
                              <<String("blinkon"), Integer(2)>>,
                              <<String("name"), String("normal")>> >>)>>)>>
      [] tag = "option_set" -> <<String("linespace"), Integer(2)>>
      [] tag = "mode_change" -> <<String("normal"), Integer(0)>>
      [] tag = "grid_resize" -> <<Integer(1), Integer(80), Integer(24)>>
      [] tag = "default_colors_set" ->
             <<Integer(16711680), Integer(65280), Integer(255), Integer(0), Integer(0)>>
      [] tag = "hl_attr_define" ->
             <<Integer(7),
               Map(<< <<String("foreground"), Integer(16711680)>>,
                      <<String("bold"), Boolean(TRUE)>>,
                      <<String("blend"), Integer(30)>> >>),
               Map(<<>>), Array(<<>>)>>
      [] tag = "grid_line" ->
             <<Integer(1), Integer(2), Integer(3),
               Array(<<Array(<<String("a"), Integer(7), Integer(2)>>),
                       Array(<<String("b")>>)>>)>>
      [] tag = "grid_clear" -> <<Integer(1)>>
      [] tag = "grid_cursor_goto" -> <<Integer(1), Integer(2), Integer(3)>>
      [] tag = "grid_scroll" ->
             <<Integer(1), Integer(0), Integer(10), Integer(0), Integer(20),
               Integer(-1), Integer(0)>>
      [] tag = "win_pos" ->
             <<Integer(2), Integer(1000), Integer(0), Integer(1), Integer(80), Integer(24)>>
      [] tag = "win_float_pos" ->
             <<Integer(2), Integer(1000), String("NW"), Integer(1), Integer(3),
               Integer(4), Boolean(TRUE)>>
      [] tag = "win_external_pos" -> <<Integer(2), Integer(1000)>>
      [] tag = "win_hide" -> <<Integer(2)>>
      [] tag = "win_close" -> <<Integer(2)>>
      [] tag = "msg_set_pos" -> <<Integer(1), Integer(5), Boolean(FALSE), String("-")>>
      [] tag = "cmdline_show" ->
             <<StyledLine, Integer(0), String(":"), String(""), Integer(0), Integer(1)>>
      [] tag = "cmdline_pos" -> <<Integer(5), Integer(1)>>
      [] tag = "cmdline_special_char" -> <<String("^"), Boolean(FALSE), Integer(1)>>
      [] tag = "cmdline_block_show" -> <<Array(<<StyledLine>>)>>
      [] tag = "cmdline_block_append" -> <<StyledLine>>
      [] tag = "msg_show" -> <<String("echo"), StyledLine, Boolean(FALSE)>>
      [] tag \in {"msg_showmode", "msg_showcmd", "msg_ruler"} -> <<StyledLine>>
      [] tag = "msg_history_show" ->
             <<Array(<<Array(<<String("emsg"), StyledLine>>)>>)>>
      [] tag = "set_icon" -> <<String("icon")>>
      [] tag = "win_viewport" -> <<Integer(2), Integer(1000)>>
      [] OTHER -> <<>>

\* Values put in place of an argument, and in place of a whole batch.
Replacements == <<String("x"), Integer(-1), BigInteger(0), RawString("x")>>
NotBatches == <<Integer(5), String("x")>>

\* The first n arguments of the batch, padded when n is past its end; the
\* batches tried have no argument, one less, as many, or one more.
Resized(tag, n) ==
    [i \in 1..n |-> IF i <= Len(WellFormed(tag)) THEN WellFormed(tag)[i] ELSE Integer(9)]
\* The batch with argument i replaced.
Replaced(tag, i, w) == [WellFormed(tag) EXCEPT ![i] = Replacements[w]]

\* Style maps of hl_attr_define with an attribute nvim does not send: a
\* colour that is no integer, a negative colour, a negative blend, a flag
\* that is no boolean, a key that is not UTF-8, a key that is no string.
StyleMaps ==
    <<Map(<< <<String("foreground"), String("red")>> >>),
      Map(<< <<String("background"), Integer(-1)>> >>),
      Map(<< <<String("blend"), Integer(-1)>> >>),
      Map(<< <<String("bold"), Integer(1)>> >>),
      Map(<< <<RawString("bold"), Boolean(TRUE)>> >>),
      Map(<< <<Integer(1), Boolean(TRUE)>> >>)>>
\* The hl_attr_define batch with the style map in place of its own.
Styled(k) == [WellFormed("hl_attr_define") EXCEPT ![2] = StyleMaps[k]]

\* Elements of a redraw notification that are no [name, batch, ...].
MalformedElements == <<Integer(5), Array(<<>>), Array(<<Integer(5)>>), Array(<<RawString("x")>>)>>

\* ------------------------------------------------------ decoder harness
DecodeInit ==
    /\ BridgeInit
    /\ DecodeIdle

\* A notification name and the name of its one element.
ChooseElement(event_name, tag) ==
    /\ d_pc = "idle"
    /\ d_name' = event_name
    /\ d_args' = <<Array(<<String(tag)>>)>>
    /\ d_pc' = "build"
    /\ UNCHANGED <<d_result, d_each, bridgeVars>>

ChooseMalformedElement(k) ==
    /\ d_pc = "idle"
    /\ d_name' = "redraw"
    /\ d_args' = <<MalformedElements[k]>>
    /\ d_pc' = "build"
    /\ UNCHANGED <<d_result, d_each, bridgeVars>>

HasName(element) ==
    element.t = "Array" /\ Len(element.a) >= 1
    /\ element.a[1].t = "String" /\ element.a[1].utf8
NameOf(element) == element.a[1].s
BatchesOf(element) == Tail(element.a)

AddBatch(batch) ==
    /\ d_pc = "build"
    /\ HasName(d_args[1])
    /\ Len(BatchesOf(d_args[1])) < MaxBatches
    /\ d_args' = <<Array(Append(d_args[1].a, batch))>>
    /\ UNCHANGED <<d_name, d_result, d_each, d_pc, bridgeVars>>

AddResized ==
    \E n \in 0..8 :
        /\ d_pc = "build" /\ HasName(d_args[1])
        /\ n <= Len(WellFormed(NameOf(d_args[1]))) + 1
        /\ n = 0 \/ n + 1 >= Len(WellFormed(NameOf(d_args[1])))
        /\ AddBatch(Array(Resized(NameOf(d_args[1]), n)))

AddReplaced ==
    \E i \in 1..7, w \in DOMAIN Replacements :
        /\ d_pc = "build" /\ HasName(d_args[1])
        /\ i <= Len(WellFormed(NameOf(d_args[1])))
        /\ AddBatch(Array(Replaced(NameOf(d_args[1]), i, w)))

AddNotBatch == \E k \in DOMAIN NotBatches : AddBatch(NotBatches[k])

AddStyled ==
    \E k \in DOMAIN StyleMaps :
        /\ d_pc = "build" /\ HasName(d_args[1])
        /\ NameOf(d_args[1]) = "hl_attr_define"
        /\ AddBatch(Array(Styled(k)))

\* The handler calls parse_neovim_event(event_name, arguments).
Decode ==
    /\ d_pc \in {"build", "compose"}
    /\ d_result' = parse_neovim_event(d_name, d_args)
    /\ d_each' = redraw_calls(d_name, d_args)
    /\ d_pc' = "decoded"
    /\ UNCHANGED <<d_name, d_args, bridgeVars>>

NextDecode ==
    \/ \E event_name \in {"redraw", "resize"}, tag \in Tags : ChooseElement(event_name, tag)
    \/ \E k \in DOMAIN MalformedElements : ChooseMalformedElement(k)
    \/ AddResized
    \/ AddReplaced
    \/ AddNotBatch
    \/ AddStyled
    \/ Decode

SpecDecode == DecodeInit /\ [][NextDecode]_vars

\* ------------------------------------------- notifications of many elements
\* The names of the elements of a composed notification: two that build an
\* event with arguments, one that builds an event without, one that
\* builds none.
NotifyTags == <<"grid_resize", "grid_cursor_goto", "flush", "set_icon">>

\* A second batch of the name as nvim sends it.
OtherWellFormed(tag) ==
    CASE tag = "grid_resize" -> <<Integer(2), Integer(100), Integer(30)>>
      [] tag = "grid_cursor_goto" -> <<Integer(2), Integer(5), Integer(6)>>
      [] tag = "set_icon" -> <<String("other")>>
      [] OTHER -> WellFormed(tag)

\* A batch of the name that fails to decode, with an error of its own.
Malformed(tag) ==
    CASE tag = "grid_resize" -> Array(Resized(tag, 0))
      [] tag = "grid_cursor_goto" -> Array(Replaced(tag, 1, 1))
      [] tag = "flush" -> NotBatches[1]
      [] OTHER -> NotBatches[2]

BatchVariants(tag) ==
    <<Array(WellFormed(tag)), Array(OtherWellFormed(tag)), Malformed(tag)>>

RECURSIVE TotalBatches(_)
TotalBatches(arguments) ==
    IF arguments = <<>> THEN 0
    ELSE Len(BatchesOf(Head(arguments))) + TotalBatches(Tail(arguments))

ChooseName(event_name) ==
    /\ d_pc = "idle"
    /\ d_name' = event_name
    /\ d_args' = <<>>
    /\ d_pc' = "compose"
    /\ UNCHANGED <<d_result, d_each, bridgeVars>>

AddElement(k) ==
    /\ d_pc = "compose"
    /\ Len(d_args) < MaxElements
    /\ d_args' = Append(d_args, Array(<<String(NotifyTags[k])>>))
    /\ UNCHANGED <<d_name, d_result, d_each, d_pc, bridgeVars>>

\* One more batch in the last element.
AddVariant(v) ==
    /\ d_pc = "compose"
    /\ d_args # <<>>
    /\ TotalBatches(d_args) < MaxTotalBatches
    /\ d_args' = [d_args EXCEPT ![Len(d_args)] =
                      Array(Append(@.a, BatchVariants(NameOf(@))[v]))]
    /\ UNCHANGED <<d_name, d_result, d_each, d_pc, bridgeVars>>

NextNotify ==
    \/ \E event_name \in {"redraw", "resize"} : ChooseName(event_name)
    \/ \E k \in DOMAIN NotifyTags : AddElement(k)
    \/ \E v \in 1..3 : AddVariant(v)
    \/ Decode

SpecNotify == DecodeInit /\ [][NextNotify]_vars

\* ===================================================== properties of Spec
\* The order a batch is to be submitted in: its last resize command, if it
\* has one, then its non-resize commands in the order they were queued.
ExpectedOrder(batch) ==
    LET resizeAt == {i \in DOMAIN batch : batch[i].kind = "Resize"}
        lastAt == CHOOSE i \in resizeAt : \A j \in resizeAt : j <= i
    IN  (IF resizeAt = {} THEN <<>> ELSE <<batch[lastAt]>>)
        \o SelectSeq(batch, LAMBDA c : c.kind # "Resize")

RECURSIVE ExpectedSubmissions(_)
ExpectedSubmissions(batches) ==
    IF batches = <<>> THEN <<>>
    ELSE ExpectedOrder(Head(batches)) \o ExpectedSubmissions(Tail(batches))

KindsOf(batch) == [i \in DOMAIN batch |-> batch[i].kind]

\* C1: the commands of every drained batch are submitted as: the last
\* resize command of the batch first (if it has any), then every non-resize
\* command in enqueue order; no other resize command is submitted. What is
\* submitted so far, followed by what the for loop still holds, is exactly
\* that order over all batches drained.
C1_SubmissionOrder == ExpectedSubmissions(batchLog) = submitted \o pending

\* C1 witness: the batch [Resize(a), Other(1), Resize(b), Other(2)] was
\* drained and submitted as [Resize(b), Other(1), Other(2)].
C1_Witness ==
    /\ loop_pc = "recv"
    /\ Len(batchLog) = 1
    /\ KindsOf(batchLog[1]) = <<"Resize", "Other", "Resize", "Other">>
    /\ submitted = <<batchLog[1][3], batchLog[1][2], batchLog[1][4]>>

\* C2: every batch is non-empty and the batches hold the queued commands
\* in FIFO order (batches, then the batch being drained, then the queue,
\* are the accepted commands in order); a batch ends only when nothing is
\* queued; the loop ends only with the channel closed and the queue empty.
C2_State ==
    /\ \A i \in DOMAIN batchLog : batchLog[i] # <<>>
    /\ loop_pc = "try_recv" => results # <<>>
    /\ loop_pc = "spawn" => pending # <<>>
    /\ receiver = "alive" => Flatten(batchLog) \o results \o queue = sent
    /\ loop_pc = "done" => ~senderAlive /\ queue = <<>>
C2_Step ==
    /\ (loop_pc = "try_recv" /\ loop_pc' = "spawn") =>
           queue = <<>> /\ batchLog' = Append(batchLog, results)
    /\ (loop_pc = "recv" /\ loop_pc' # "recv") =>
           IF queue # <<>> THEN loop_pc' = "try_recv" /\ results' = <<Head(queue)>>
           ELSE loop_pc' = "done" /\ ~senderAlive
C2_DrainBatches == [](C2_State) /\ [][C2_Step]_vars

\* C2 witness: a batch of several commands was drained, and the loop ended
\* after the channel closed.
C2_Witness ==
    /\ loop_pc = "done"
    /\ \E i \in DOMAIN batchLog : Len(batchLog[i]) >= 2
    /\ Len(batchLog) >= 2

CallNames == <<"eval", "set_var", "ui_attach">>
AttachSucceeded == Len(calls) = 3 /\ calls[3].ok

\* C3: startup is linear: eval, then set_var, then ui_attach, each made
\* only after the one before succeeded; the dispatch loop exists only after
\* ui_attach succeeded, so nothing is drained or submitted before that, and
\* nothing ever is when set_var or ui_attach failed.
C3_LinearStartup ==
    /\ Len(calls) <= 3
    /\ \A i \in DOMAIN calls :
          /\ calls[i].name = CallNames[i]
          /\ i < Len(calls) => calls[i].ok
    /\ sup_pc = "spawn" => calls = <<>> /\ io_pc = "unspawned"
    /\ sup_pc = "version_gate" => calls = <<>> \/ (exited /\ Len(calls) = 1)
    /\ sup_pc = "set_var" => Len(calls) = 1 /\ calls[1].ok
    /\ sup_pc = "ui_attach" => Len(calls) = 2 /\ calls[2].ok
    /\ sup_pc = "returned" <=> AttachSucceeded
    /\ loop_pc # "unspawned" => AttachSucceeded
    /\ ~AttachSucceeded =>
          /\ batchLog = <<>> /\ results = <<>> /\ submitted = <<>>
          /\ running = {} /\ completed = <<>>
          /\ queue = sent

\* C3 witness: commands queued during the handshake were executed after the
\* attach succeeded.
C3_Witness ==
    /\ AttachSucceeded
    /\ completed # <<>>
    /\ Len(submitted) >= 2

\* C4 as claimed: the IO task is spawned only in the steady state, so it
\* does not exist while the version gate or the handshake is in progress.
C4_IoTaskSpawnedAtSteadyState ==
    io_pc # "unspawned" => sup_pc = "returned"

ChildSpawned ==
    sup_pc \in {"version_gate", "set_var", "ui_attach", "returned"}
    \/ (sup_pc = "panicked" /\ calls # <<>>)

\* C4 amended: the IO task is spawned as soon as the child process exists,
\* before the version gate: it exists exactly when the child was spawned,
\* so it runs during the version gate and the handshake; only the dispatch
\* loop waits for the attach.
C4_IoTaskSpawnedWithChild ==
    /\ ChildSpawned <=> io_pc # "unspawned"
    /\ loop_pc # "unspawned" => AttachSucceeded

\* C4 witness: the IO task ended the process while the handshake was still
\* in progress.
C4_Witness ==
    /\ sup_pc \in {"set_var", "ui_attach"}
    /\ io_pc = "done" /\ exited

ProbeSaysSupported(call) ==
    call.ok /\ call.resp.t = "Integer" /\ call.resp.hi = 0 /\ call.resp.i = 1

\* C5: unless the probe returned Ok with the integer 1, the process has
\* exited with status 0 right at the gate: no set_var, no ui_attach, no
\* dispatch loop.
C5_VersionGate ==
    (calls # <<>> /\ ~ProbeSaysSupported(calls[1])) =>
        /\ exited /\ exitStatus = 0
        /\ Len(calls) = 1
        /\ sup_pc = "version_gate"
        /\ loop_pc = "unspawned" /\ submitted = <<>>

\* C5 witness: the probe returned an integer other than 1 and the process
\* exited at the gate.
C5_Witness ==
    /\ calls # <<>> /\ calls[1].ok /\ calls[1].resp.t = "Integer"
    /\ ~ProbeSaysSupported(calls[1])
    /\ exited /\ io_pc = "awaiting"

\* C6: once io_handler has resolved, with whatever outcome, the process
\* has exited with status 0.
C6_IoLoopEndExits ==
    ioOutcome # "none" => exited /\ exitStatus = 0

\* C6 witness: io_handler resolved with the channel-closed error while the
\* dispatch loop was running, and the process exited.
C6_Witness ==
    /\ ioOutcome = "err_channel_closed"
    /\ exited /\ exitStatus = 0
    /\ loop_pc # "unspawned"

\* C7: queue_command is never blocked (by the queue length, by other
\* producers or by where the supervisor stands); while the receiver lives
\* the command is appended to the queue and the producer goes on; the call
\* panics only when the receiver has been dropped.
C7_State ==
    /\ \A p \in Producers :
          (~exited /\ senderAlive /\ prod[p] = "running" /\ nextId <= MaxCmds)
              => ENABLED queue_command(p, "Other")
    /\ (\E p \in Producers : prod[p] = "panicked") => receiver = "dropped"
C7_Step ==
    nextId' # nextId =>
        IF receiver = "alive"
        THEN /\ Len(queue') = Len(queue) + 1
             /\ queue'[Len(queue')].id = nextId
             /\ sent' = Append(sent, queue'[Len(queue')])
             /\ prod' = prod
        ELSE /\ queue' = queue
             /\ \E p \in Producers : prod[p] = "running" /\ prod'[p] = "panicked"
C7_QueueCommand == [](C7_State) /\ [][C7_Step]_vars

\* C7 witness: several commands were accepted while the supervisor had not
\* finished the handshake, then the supervisor panicked and a later call
\* panicked.
C7_Witness ==
    /\ Len(sent) >= 3 /\ queue = sent
    /\ sup_pc = "panicked"
    /\ \E p \in Producers : prod[p] = "panicked"

PositionIn(seq, id) == CHOOSE i \in DOMAIN seq : seq[i].id = id

\* C8: the dispatch loop never waits for a spawned task: it can always
\* spawn the next command of the batch and drain the next batch; and every
\* running task can be the next to finish, whatever else is running.
C8_NoCompletionOrder ==
    ~exited =>
        /\ loop_pc = "spawn" => ENABLED spawn_command
        /\ (loop_pc = "recv" /\ queue # <<>>) => ENABLED drain_recv_Some
        /\ \A id \in running : ENABLED execute(id)

\* C8 witness: two commands of one batch and one of a later batch, all
\* finished, the later-submitted ones first.
C8_Witness ==
    /\ Len(completed) >= 3
    /\ Len(batchLog) >= 2
    /\ \A i, j \in DOMAIN completed :
          i < j => PositionIn(submitted, completed[i]) > PositionIn(submitted, completed[j])

\* The commands of a sequence that are no resize, and those that are.
NonResize(commands) == SelectSeq(commands, LAMBDA c : c.kind # "Resize")
Resizes(commands) == SelectSeq(commands, LAMBDA c : c.kind = "Resize")
IsPrefix(a, b) == Len(a) <= Len(b) /\ a = SubSeq(b, 1, Len(a))
Occurs(c, commands) == \E i \in DOMAIN commands : commands[i] = c
LastOf(commands) == IF commands = <<>> THEN <<>> ELSE <<commands[Len(commands)]>>

\* The dispatch loop waits in recv() with nothing queued: all that was
\* enqueued has been drained and handed to tokio::spawn.
LoopAtRest == loop_pc = "recv" /\ queue = <<>>

\* C15: the non-resize commands submitted are, at every moment, the first
\* of the non-resize commands the channel accepted, in enqueue order and
\* each once, whatever the batches they fell into; when the loop has
\* drained the queue, every one of them has been submitted.
C15_NonResizeExactlyOnceInOrder ==
    /\ IsPrefix(NonResize(submitted), NonResize(sent))
    /\ \A i, j \in DOMAIN submitted : submitted[i].id = submitted[j].id => i = j
    /\ LoopAtRest => NonResize(submitted) = NonResize(sent)

C15_Witness ==
    /\ LoopAtRest
    /\ Len(batchLog) >= 2
    /\ Len(NonResize(batchLog[1])) >= 2
    /\ Resizes(batchLog[1]) # <<>>
    /\ NonResize(batchLog[2]) # <<>>
    /\ Len(NonResize(submitted)) >= 3

\* C16: a resize command of a drained batch is dropped exactly when a
\* later resize command of the same batch exists (which is then the one
\* submitted); the last resize command of every batch is submitted, so
\* resize commands of different batches are each submitted, and when the
\* loop has drained the queue the last resize command submitted is the
\* last one enqueued.
C16_CoalescingPerBatch ==
    /\ \A b \in DOMAIN batchLog : \A i \in DOMAIN batchLog[b] :
           batchLog[b][i].kind = "Resize" =>
               (Occurs(batchLog[b][i], submitted \o pending)
                   <=> \A j \in (i + 1)..Len(batchLog[b]) :
                           batchLog[b][j].kind # "Resize")
    /\ LoopAtRest => LastOf(Resizes(submitted)) = LastOf(Resizes(sent))

C16_Witness ==
    /\ LoopAtRest
    /\ Len(batchLog) = 2
    /\ Len(Resizes(batchLog[1])) = 2
    /\ Len(Resizes(batchLog[2])) = 1
    /\ Len(Resizes(submitted)) = 2
    /\ Len(Resizes(sent)) = 3

\* ================================================ properties of SpecDecode
\* A redraw notification of one element [name, batch, ...] has been decoded.
DecodedElement ==
    d_pc = "decoded" /\ d_name = "redraw" /\ HasName(d_args[1])

IsBatch(event) == event.t = "Array"
AllBatches(events) == \A i \in DOMAIN events : IsBatch(events[i])
FirstNotBatch(events) ==
    events[CHOOSE i \in DOMAIN events :
               ~IsBatch(events[i]) /\ \A j \in 1..(i - 1) : IsBatch(events[j])]

\* C9 as stated: a redraw element whose event name is not one the match
\* builds an event for never causes a decode error; decoding it yields the
\* empty sequence.
C9_UnknownTagNeverErrors ==
    (DecodedElement /\ NameOf(d_args[1]) \notin event_names)
        => d_result = Ok(<<>>)

\* C9 as amended: a redraw element whose event name is not one the match
\* builds an event for decodes to the empty sequence when every batch of
\* the element is an array; otherwise the decode fails with InvalidArray
\* carrying the first batch that is no array.
C9_UnknownTagIgnored ==
    (DecodedElement /\ NameOf(d_args[1]) \notin event_names)
        => d_result = IF AllBatches(BatchesOf(d_args[1])) THEN Ok(<<>>)
                      ELSE Invalid("InvalidArray", FirstNotBatch(BatchesOf(d_args[1])))

C9_Witness ==
    /\ DecodedElement
    /\ NameOf(d_args[1]) = "set_icon"
    /\ Len(BatchesOf(d_args[1])) = MaxBatches
    /\ AllBatches(BatchesOf(d_args[1]))
    /\ BatchesOf(d_args[1])[1] = Array(<<String("icon")>>)
    /\ d_result = Ok(<<>>)

\* The number of arguments of a batch of the name as nvim sends it.
ExpectedArity(tag) == Len(WellFormed(tag))

\* C10: for every event name the match builds an event for, a first batch
\* whose number of arguments differs from the expected arity of the name
\* makes the decode fail with InvalidEventFormat; the names without
\* arguments (busy_start, busy_stop, flush, cmdline_hide,
\* cmdline_block_hide, msg_clear) are no exception.
C10_WrongArityIsError ==
    (/\ DecodedElement
     /\ NameOf(d_args[1]) \in event_names
     /\ BatchesOf(d_args[1]) # <<>>
     /\ IsBatch(BatchesOf(d_args[1])[1])
     /\ Len(BatchesOf(d_args[1])[1].a) # ExpectedArity(NameOf(d_args[1])))
        => d_result = InvalidEventFormat

\* The type of a value on the wire.
WireType(value) == value.t

\* The batch has the arity of the name and an argument of another wire type
\* than nvim sends, or it is an hl_attr_define batch with one of StyleMaps.
IllTyped(tag, batch) ==
    /\ Len(batch) = ExpectedArity(tag)
    /\ \/ \E i \in DOMAIN batch : WireType(batch[i]) # WireType(WellFormed(tag)[i])
       \/ tag = "hl_attr_define" /\ \E k \in DOMAIN StyleMaps : batch = Styled(k)

\* C11: for every event name the match builds an event for, a first batch
\* of the right arity with an element of the wrong wire type makes the
\* decode fail with a decode error: it does not panic, and it does not
\* succeed by skipping the element or putting a default in its place.
C11_WrongTypeIsError ==
    (/\ DecodedElement
     /\ NameOf(d_args[1]) \in event_names
     /\ BatchesOf(d_args[1]) # <<>>
     /\ IsBatch(BatchesOf(d_args[1])[1])
     /\ IllTyped(NameOf(d_args[1]), BatchesOf(d_args[1])[1].a))
        => ~d_result.ok /\ d_result.err.kind # "panic"

\* The u64 the decoder makes of the wire integer n.
Unsigned(n) == U64(Integer(n))

\* The variant of RedrawEvent of each event name.
VariantOf(tag) ==
    CASE tag = "set_title" -> "SetTitle"
      [] tag = "mode_info_set" -> "ModeInfoSet"
      [] tag = "option_set" -> "OptionSet"
      [] tag = "mode_change" -> "ModeChange"
      [] tag = "busy_start" -> "BusyStart"
      [] tag = "busy_stop" -> "BusyStop"
      [] tag = "flush" -> "Flush"
      [] tag = "grid_resize" -> "Resize"
      [] tag = "default_colors_set" -> "DefaultColorsSet"
      [] tag = "hl_attr_define" -> "HighlightAttributesDefine"
      [] tag = "grid_line" -> "GridLine"
      [] tag = "grid_clear" -> "Clear"
      [] tag = "grid_cursor_goto" -> "CursorGoto"
      [] tag = "grid_scroll" -> "Scroll"
      [] tag = "win_pos" -> "WindowPosition"
      [] tag = "win_float_pos" -> "WindowFloatPosition"
      [] tag = "win_external_pos" -> "WindowExternalPosition"
      [] tag = "win_hide" -> "WindowHide"
      [] tag = "win_close" -> "WindowClose"
      [] tag = "msg_set_pos" -> "MessageSetPosition"
      [] tag = "cmdline_show" -> "CommandLineShow"
      [] tag = "cmdline_pos" -> "CommandLinePosition"
      [] tag = "cmdline_special_char" -> "CommandLineSpecialCharacter"
      [] tag = "cmdline_hide" -> "CommandLineHide"
      [] tag = "cmdline_block_show" -> "CommandLineBlockShow"
      [] tag = "cmdline_block_append" -> "CommandLineBlockAppend"
      [] tag = "cmdline_block_hide" -> "CommandLineBlockHide"
      [] tag = "msg_show" -> "MessageShow"
      [] tag = "msg_clear" -> "MessageClear"
      [] tag = "msg_showmode" -> "MessageShowMode"
      [] tag = "msg_showcmd" -> "MessageShowCommand"
      [] tag = "msg_ruler" -> "MessageRuler"
      [] tag = "msg_history_show" -> "MessageHistoryShow"

\* A redraw notification of one element with the one batch nvim sends for
\* its name has been decoded.
DecodedWellFormed ==
    /\ DecodedElement
    /\ NameOf(d_args[1]) \in event_names
    /\ BatchesOf(d_args[1]) = <<Array(WellFormed(NameOf(d_args[1])))>>

\* C13: for every event name the match builds an event for, a well-formed
\* batch decodes to exactly one event of the variant of the name, with the
\* positional arguments in wire order as its fields: grid_resize [1, 80, 24]
\* gives Resize{grid: 1, width: 80, height: 24} and grid_cursor_goto
\* [1, 2, 3] (grid, row, column) gives CursorGoto{grid: 1, row: 2, column: 3}.
C13_FieldsInWireOrder ==
    DecodedWellFormed =>
        /\ d_result.ok
        /\ Len(d_result.val) = 1
        /\ d_result.val[1].type = VariantOf(NameOf(d_args[1]))
        /\ NameOf(d_args[1]) = "grid_resize" =>
               d_result.val[1] = [type |-> "Resize", grid |-> Unsigned(1),
                                  width |-> Unsigned(80), height |-> Unsigned(24)]
        /\ NameOf(d_args[1]) = "grid_cursor_goto" =>
               d_result.val[1] = [type |-> "CursorGoto", grid |-> Unsigned(1),
                                  row |-> Unsigned(2), column |-> Unsigned(3)]

\* ================================================ properties of SpecNotify
\* The result of each batch of the notification on its own, in encounter
\* order over the elements and over the batches inside each element.
RECURSIVE BatchResults(_)
BatchResults(arguments) ==
    IF arguments = <<>> THEN <<>>
    ELSE [j \in DOMAIN BatchesOf(Head(arguments)) |->
              parse_batch(NameOf(Head(arguments)), BatchesOf(Head(arguments))[j])]
         \o BatchResults(Tail(arguments))

\* The events of the results, each in the place of its batch.
RECURSIVE EventsOf(_)
EventsOf(rs) ==
    IF rs = <<>> THEN <<>>
    ELSE IF Head(rs).ok /\ Head(rs).val.some
    THEN <<Head(rs).val.v>> \o EventsOf(Tail(rs))
    ELSE EventsOf(Tail(rs))

\* The place of the first batch that fails to decode.
FirstMalformed(rs) ==
    CHOOSE i \in DOMAIN rs : ~rs[i].ok /\ \A j \in 1..(i - 1) : rs[j].ok

\* What the caller of parse_neovim_event receives as events.
Delivered(result) == IF result.ok THEN result.val ELSE <<>>

DecodedMalformed ==
    /\ d_pc = "decoded" /\ d_name = "redraw"
    /\ \E i \in DOMAIN BatchResults(d_args) : ~BatchResults(d_args)[i].ok

\* C12 as stated: the decode fails with the error of the first malformed
\* batch in encounter order, and the events of the well-formed batches
\* before it in the same notification are still delivered to the caller.
C12_EarlierEventsDelivered ==
    DecodedMalformed =>
        /\ d_result = BatchResults(d_args)[FirstMalformed(BatchResults(d_args))]
        /\ Delivered(d_result) =
               EventsOf(SubSeq(BatchResults(d_args), 1,
                               FirstMalformed(BatchResults(d_args)) - 1))

\* C12 as amended: the decode fails with the error of the first malformed
\* batch in encounter order, and that error is all the caller receives:
\* no event of the notification is delivered, those of the well-formed
\* batches before the malformed one included.
C12_FirstErrorAlone ==
    DecodedMalformed =>
        /\ d_result = BatchResults(d_args)[FirstMalformed(BatchResults(d_args))]
        /\ ~d_result.ok
        /\ Delivered(d_result) = <<>>

C12_Witness ==
    /\ DecodedMalformed
    /\ Len(d_args) = 2
    /\ Len(BatchResults(d_args)) = 3
    /\ FirstMalformed(BatchResults(d_args)) = 2
    /\ EventsOf(SubSeq(BatchResults(d_args), 1, 1)) # <<>>
    /\ ~BatchResults(d_args)[3].ok
    /\ BatchResults(d_args)[3] # BatchResults(d_args)[2]
    /\ ~d_result.ok

DecodedAllWellFormed ==
    /\ d_pc = "decoded" /\ d_name = "redraw"
    /\ \A i \in DOMAIN BatchResults(d_args) : BatchResults(d_args)[i].ok

\* C14: for a well-formed redraw notification the decoded sequence is the
\* events of its batches, none or one per batch, in the order of the
\* batches over all elements, so it is no longer than the number of
\* batches; for any other notification name the result is the empty
\* sequence, whatever the arguments.
C14_EventsInWireOrder ==
    /\ DecodedAllWellFormed =>
           /\ d_result = Ok(EventsOf(BatchResults(d_args)))
           /\ Len(d_result.val) <= TotalBatches(d_args)
    /\ (d_pc = "decoded" /\ d_name # "redraw") => d_result = Ok(<<>>)

C14_Witness ==
    /\ DecodedAllWellFormed
    /\ Len(d_args) = 2
    /\ TotalBatches(d_args) = 3
    /\ Len(d_result.val) = 3
    /\ d_result.val[1].type = "CursorGoto"
    /\ d_result.val[2].type = "Resize"
    /\ d_result.val[3].type = "Resize"
    /\ d_result.val[2] # d_result.val[3]

====
